---- MODULE Spec2Model ----
(***************************************************************************)
(* A model of the velbuspy core: the per-module delayed-call scheduler of  *)
(* VelbusModule (VelbusModule.py) and the declared message schemas of      *)
(* ModuleStatus.py, SensorSettings.py and SensorSettingsRequest.py.        *)
(*                                                                         *)
(* Time is counted in whole ticks.  A datetime is a record                  *)
(*   [set, wall, tzinfo]                                                    *)
(* where set = FALSE stands for `when is None`, wall is the wall-clock     *)
(* reading and tzinfo is "naive" (no tzinfo), "utc" or "local" (an aware   *)
(* datetime in a zone LocalOffset ticks east of UTC).                      *)
(***************************************************************************)
EXTENDS Integers, Sequences, FiniteSets, TLC

\* ---------------------------------------------------------------- bounds
\* The clock runs from 0 to MaxTime.
MaxTime == 2
\* A module is given at most MaxCalls DelayedCall objects, over all its plans.
MaxCalls == 3
\* At most MaxTasks awaitables returned by delayed_call are pending at a time.
MaxTasks == 1
\* The event loop may run a timer callback up to EarlySlack ticks before its
\* deadline (clock resolution, monotonic clock against wall clock).
EarlySlack == 1
\* A zone other than UTC lies LocalOffset ticks east of UTC.
LocalOffset == 1
\* A frame to resolve has at most MaxDataBytes data bytes.
MaxDataBytes == 8
\* The tokens of a path_info are at most MaxPath.
MaxPath == 4
\* The observer of a state gets at most MaxPatches patches.
MaxPatches == 5
\* A Temperature value to encode lies at most MaxQuarters quarters of a
\* degree from zero, or at the ends of the representable range.
MaxQuarters == 5

\* ------------------------------------------------------------- constants
\* self._next_delayed_call = None
None == 0

\* The module runtimes (bus addresses) of the model.
Addresses == {1, 2}

VARIABLES
    now,        \* datetime.datetime.now(tz=utc), also the event loop's clock
    modules,    \* address -> the VelbusModule at that address
    imported,   \* the message files imported so far
    registry,   \* the schemas registered so far
    rejected,   \* the schemas whose registration failed, with the reason
    query,      \* the last resolution: command, length and result
    http,       \* the last HTTP call passed to dispatch, and what came of it
    states,     \* address -> self._state of the module there, with the
                \*   patches its observer got
    wire        \* the last message encoded: its schema, its field values,
                \*   its payload bytes and what decoding them gave

sched_vars == <<now, modules>>
reg_vars == <<imported, registry, rejected, query>>
aux_vars == <<http, states, wire>>
vars == <<now, modules, imported, registry, rejected, query, http, states,
         wire>>

\* ------------------------------------------------------------- datetimes
NoneWhen == [set |-> FALSE, wall |-> 0, tzinfo |-> "naive"]

DateTime(w, tz) == [set |-> TRUE, wall |-> w, tzinfo |-> tz]

\* datetime.datetime.now(datetime.timezone.utc)
UtcNow(t) == DateTime(t, "utc")

\* The UTC offset of an aware datetime.
UtcOffset(dt) == IF dt.tzinfo = "utc" THEN 0 ELSE LocalOffset

\* The instant of an aware datetime: aware datetimes compare, and subtract,
\* by their instants.
Instant(dt) == dt.wall - UtcOffset(dt)

\* A mutant of ReplaceTzinfoUtc: the naive value is read as local time and
\* converted (astimezone) instead of being relabelled.
ReplaceTzinfoAsLocal(dt) == [dt EXCEPT !.wall = dt.wall - LocalOffset, !.tzinfo = "utc"]

\* dt.replace(tzinfo=datetime.timezone.utc): same wall clock, now marked UTC
ReplaceTzinfoUtc(dt) == [dt EXCEPT !.tzinfo = "utc"]

\* VelbusModule.datetime_to_relative_seconds(timestamp), reference now
datetime_to_relative_seconds(timestamp, t) ==
    LET reference == UtcNow(t)
        ts == IF timestamp.tzinfo = "naive" THEN ReplaceTzinfoUtc(timestamp)
                                            ELSE timestamp
    IN  Instant(ts) - Instant(reference)

\* ---------------------------------------------------------- DelayedCall
\* A DelayedCall object: id is its identity (the id-th DelayedCall given to
\* the module), when is its field.
DelayedCall(i, w) == [id |-> i, when |-> w]

\* ----------------------------------------------------------- SortedList
\* key=lambda e: e.when
Key(e) == Instant(e.when)

\* A mutant of SortedListAdd: the new element goes before the elements of
\* equal key (bisect_left).
SortedListAddLeft(q, e) ==
    LET k == Cardinality({i \in 1..Len(q) : Key(q[i]) < Key(e)})
    IN  SubSeq(q, 1, k) \o <<e>> \o SubSeq(q, k + 1, Len(q))

\* SortedList.add: the new element goes after every element whose key is
\* not greater (bisect_right).
SortedListAdd(q, e) ==
    LET k == Cardinality({i \in 1..Len(q) : Key(q[i]) <= Key(e)})
    IN  SubSeq(q, 1, k) \o <<e>> \o SubSeq(q, k + 1, Len(q))

\* A mutant of SortedListPop: the head is read and left in the list.
SortedListPeek(q) == q

\* SortedList.pop(0), the list it leaves (the item returned is q[1]).
SortedListPop(q) == Tail(q)

\* A mutant of SortedListClear: the old entries stay.
SortedListKeep(q) == q

\* SortedList.clear
SortedListClear(q) == <<>>

\* ----------------------------------------------------------- the timers
\* The handles already in use among the timers ts.
NewHandle(ts) == CHOOSE h \in 1..(Cardinality(ts) + 1) :
                    /\ \A t \in ts : t.h # h
                    /\ \A g \in 1..(h - 1) : \E t \in ts : t.h = g

\* A mutant of TimerCancel: the handle is dropped without being cancelled.
TimerForget(ts, h) == ts

\* TimerHandle.cancel(): the loop will not run the handle
TimerCancel(ts, h) == {t \in ts : t.h # h}

\* loop.call_later(delay, self._delayed_call) at loop time t
call_later(ts, delay, t) == ts \cup {[h |-> NewHandle(ts), deadline |-> t + delay]}

\* VelbusModule._schedule_next_delayed_call at time t
_schedule_next_delayed_call(m, t) ==
    LET ts == IF m.next_delayed_call # None
                THEN TimerCancel(m.timers, m.next_delayed_call)
                ELSE m.timers
    IN  IF Len(m.process_queue) = 0
          THEN [m EXCEPT !.timers = ts, !.next_delayed_call = None]
          ELSE LET when == m.process_queue[1].when
                   delay == datetime_to_relative_seconds(when, t)
               IN  [m EXCEPT !.timers = call_later(ts, delay, t),
                             !.next_delayed_call = NewHandle(ts)]

\* ------------------------------------------------- the delayed_calls setter
\* A mutant of Normalise: a naive fire time is left as it is.
NormaliseNoneOnly(call, t) ==
    IF ~call.when.set THEN [call EXCEPT !.when = UtcNow(t)] ELSE call

\* The loop body of the setter for one call (lines 198-202): when is
\* defaulted, then normalised.
Normalise(call, t) ==
    LET c1 == IF ~call.when.set THEN [call EXCEPT !.when = UtcNow(t)] ELSE call
    IN  IF c1.when.tzinfo = "naive"
          THEN [c1 EXCEPT !.when = ReplaceTzinfoUtc(c1.when)]
          ELSE c1

RECURSIVE AddAll(_, _, _)
AddAll(q, value, t) ==
    IF value = <<>> THEN q
    ELSE AddAll(SortedListAdd(q, Normalise(Head(value), t)), Tail(value), t)

\* VelbusModule.delayed_calls (setter) at time t.  The history fields record
\* the call: created counts the DelayedCall objects given so far, plan_first
\* is that count before this plan (the plan's calls have the ids after it), given
\* holds the fire times as the caller gave them (kept while the call is
\* queued), dropped the number of entries that clear() removed; calls starts
\* again with the new plan.
delayed_calls_setter(m, value, t) ==
    _schedule_next_delayed_call(
        [m EXCEPT !.process_queue = AddAll(SortedListClear(m.process_queue), value, t),
                  !.plan_first = m.created,
                  !.created = m.created + Len(value),
                  !.given = [i \in 1..Len(value) |-> value[i].when],
                  !.dropped = Len(m.process_queue),
                  !.calls = <<>>,
                  !.fire_mark = 0],
        t)

\* ------------------------------------------------------------ the inputs
Walls == 0..MaxTime

\* The values a caller gives to DelayedCall.when.
Whens == {NoneWhen} \cup {DateTime(w, tz) : w \in Walls, tz \in {"naive", "utc"}}

\* The sequences over S of length at most n.
SeqsUpTo(S, n) == UNION {[1..k -> S] : k \in 0..n}

\* The fire times of the next plan given to module m.
PlanWhens(m) == SeqsUpTo(Whens, MaxCalls - m.created)

\* The DelayedCall objects of a plan, built from its fire times; first is
\* the number of DelayedCall objects the module was given before.
Plan(ws, first) == [i \in 1..Len(ws) |-> DelayedCall(first + i, ws[i])]

\* ------------------------------------------------------- the field types
\* The bit-level types of _types.py, by their widths.
UInt(n) == [kind |-> "UInt", bits |-> n]
Enum(n) == [kind |-> "Enum", bits |-> n]
Bitmap(n) == [kind |-> "Bitmap", bits |-> n]
Bool == [kind |-> "Bool", bits |-> 1]
\* The width of a Temperature field: one byte.
TemperatureBits == 8
\* Temperature(0.5): halves of a degree
TemperatureHalf == [kind |-> "Temperature", bits |-> TemperatureBits]

Field(name, type) == [name |-> name, type |-> type]

\* ----------------------------------------------------------- the schemas
\* A schema: the class, its file, the value of its _command and its fields
\* after _priority and _command, in the order of their declaration.

\* A mutant of ModuleStatus8PBU: one more Bitmap(8), the layout of VMBELO's
\* length.
ModuleStatus8PBU_ExtraByte ==
    [ name |-> "ModuleStatus8PBU", file |-> "ModuleStatus", command |-> 237,
      fields |-> <<
        Field("channel_pressed", Bitmap(8)),
        Field("channel_enabled", Bitmap(8)),
        Field("channel_not_inverted", Bitmap(8)),
        Field("channel_locked", Bitmap(8)),
        Field("channel_program_disabled", Bitmap(8)),
        Field("channel_extra", Bitmap(8)),
        Field("prog_sunset_enabled", Bool),
        Field("prog_sunrise_enabled", Bool),
        Field("alarm2", Enum(1)),
        Field("alarm2_enabled", Bool),
        Field("alarm1", Enum(1)),
        Field("alarm1_enabled", Bool),
        Field("program", Enum(2)) >> ]

ModuleStatus8PBU ==
    [ name |-> "ModuleStatus8PBU", file |-> "ModuleStatus", command |-> 237,
      fields |-> <<
        Field("channel_pressed", Bitmap(8)),
        Field("channel_enabled", Bitmap(8)),
        Field("channel_not_inverted", Bitmap(8)),
        Field("channel_locked", Bitmap(8)),
        Field("channel_program_disabled", Bitmap(8)),
        Field("prog_sunset_enabled", Bool),
        Field("prog_sunrise_enabled", Bool),
        Field("alarm2", Enum(1)),
        Field("alarm2_enabled", Bool),
        Field("alarm1", Enum(1)),
        Field("alarm1_enabled", Bool),
        Field("program", Enum(2)) >> ]

ModuleStatus6IN ==
    [ name |-> "ModuleStatus6IN", file |-> "ModuleStatus", command |-> 237,
      fields |-> <<
        Field("input_status", Bitmap(8)),
        Field("leds_on", Bitmap(8)),
        Field("leds_slow_blink", Bitmap(8)),
        Field("leds_fast_blink", Bitmap(8)) >> ]

\* A mutant of ModuleStatusVMBELO: ignore_bit3 is left out.
ModuleStatusVMBELO_MissingBit ==
    [ name |-> "ModuleStatusVMBELO", file |-> "ModuleStatus", command |-> 237,
      fields |-> <<
        Field("channel_pressed", Bitmap(8)),
        Field("channel_enabled", Bitmap(8)),
        Field("open_collector_output_on", Bool),
        Field("open_collector_output_locked", Bool),
        Field("open_collector_output_program_disabled", Bool),
        Field("temperature_sensor_program_disabled", Bool),
        Field("edge_colod_inhibited", Bool),
        Field("ignore_bit1", Bool),
        Field("ignore_bit2", Bool),
        Field("channel_locked", Bitmap(8)),
        Field("channel_program_disabled", Bitmap(8)),
        Field("prog_sunset_enabled", Bool),
        Field("prog_sunrise_enabled", Bool),
        Field("alarm2", Enum(1)),
        Field("alarm2_enabled", Bool),
        Field("alarm1", Enum(1)),
        Field("alarm1_enabled", Bool),
        Field("program", Enum(2)),
        Field("display", Enum(1)),
        Field("screen_saver", Enum(1)),
        Field("menu_page", Bool),
        Field("page", Enum(5)) >> ]

ModuleStatusVMBELO ==
    [ name |-> "ModuleStatusVMBELO", file |-> "ModuleStatus", command |-> 237,
      fields |-> <<
        Field("channel_pressed", Bitmap(8)),
        Field("channel_enabled", Bitmap(8)),
        Field("open_collector_output_on", Bool),
        Field("open_collector_output_locked", Bool),
        Field("open_collector_output_program_disabled", Bool),
        Field("temperature_sensor_program_disabled", Bool),
        Field("edge_colod_inhibited", Bool),
        Field("ignore_bit1", Bool),
        Field("ignore_bit2", Bool),
        Field("ignore_bit3", Bool),
        Field("channel_locked", Bitmap(8)),
        Field("channel_program_disabled", Bitmap(8)),
        Field("prog_sunset_enabled", Bool),
        Field("prog_sunrise_enabled", Bool),
        Field("alarm2", Enum(1)),
        Field("alarm2_enabled", Bool),
        Field("alarm1", Enum(1)),
        Field("alarm1_enabled", Bool),
        Field("program", Enum(2)),
        Field("display", Enum(1)),
        Field("screen_saver", Enum(1)),
        Field("menu_page", Bool),
        Field("page", Enum(5)) >> ]

SensorSettings1 ==
    [ name |-> "SensorSettings1", file |-> "SensorSettings", command |-> 232,
      fields |-> <<
        Field("current_temperature_set", TemperatureHalf),
        Field("comfort_temperature_set_for_heating", TemperatureHalf),
        Field("day_temperature_set_for_heating", TemperatureHalf),
        Field("night_temperature_set_for_heating", TemperatureHalf),
        Field("anti_frost_temperature_set_for_heating", TemperatureHalf),
        Field("boost_temperature_difference_set", TemperatureHalf),
        Field("hysteresis_temperature", TemperatureHalf) >> ]

SensorSettings2 ==
    [ name |-> "SensorSettings2", file |-> "SensorSettings", command |-> 233,
      fields |-> <<
        Field("comfort_temperature_set_for_cooling", TemperatureHalf),
        Field("day_temperature_set_for_cooling", TemperatureHalf),
        Field("night_temperature_set_for_cooling", TemperatureHalf),
        Field("save_temperature_set_for_cooling", TemperatureHalf),
        Field("default_sleep_timer", UInt(16)),
        Field("send_temperature_interval", UInt(8)) >> ]

SensorSettings3 ==
    [ name |-> "SensorSettings3", file |-> "SensorSettings", command |-> 198,
      fields |-> <<
        Field("temperature_alarm_1", TemperatureHalf),
        Field("temperature_alarm_4", TemperatureHalf),
        Field("lower_temperature_range_cooling", TemperatureHalf),
        Field("upper_temperature_range_heating", TemperatureHalf),
        Field("calibration_offset_factor", TemperatureHalf),
        Field("zone_number", UInt(8)),
        Field("calibration_gain_factor", UInt(8)) >> ]

SensorSettings4 ==
    [ name |-> "SensorSettings4", file |-> "SensorSettings", command |-> 185,
      fields |-> <<
        Field("min_switching_time", UInt(8)),
        Field("pump_delay_on_time", UInt(8)),
        Field("pump_delay_off_time", UInt(8)),
        Field("temperature_alarm_2", TemperatureHalf),
        Field("temperature_alarm_3", TemperatureHalf),
        Field("lower_temperature_range_heating", TemperatureHalf),
        Field("upper_temperature_range_cooling", TemperatureHalf) >> ]

SensorSettingsRequest ==
    [ name |-> "SensorSettingsRequest", file |-> "SensorSettingsRequest",
      command |-> 231, fields |-> <<>> ]

\* The classes under @register, file by file, in the order of the file.
Declared(file) ==
    CASE file = "ModuleStatus" ->
            <<ModuleStatus8PBU, ModuleStatus6IN, ModuleStatusVMBELO>>
      [] file = "SensorSettings" ->
            <<SensorSettings1, SensorSettings2, SensorSettings3, SensorSettings4>>
      [] file = "SensorSettingsRequest" ->
            <<SensorSettingsRequest>>

Files == {"ModuleStatus", "SensorSettings", "SensorSettingsRequest"}

AllDeclared == UNION {{Declared(f)[i] : i \in 1..Len(Declared(f))} : f \in Files}

\* ---------------------------------------------------------- the registry
RECURSIVE SumBits(_)
SumBits(fields) ==
    IF fields = <<>> THEN 0 ELSE Head(fields).type.bits + SumBits(Tail(fields))

\* The bits of the fields after _command, in the order of declaration.
PayloadBits(schema) == SumBits(schema.fields)

\* The data bits of a frame of the schema: _command, an Enum(8), and the
\* fields after it (_priority is not among the data bytes).
DataBits(schema) == Enum(8).bits + PayloadBits(schema)

\* The data bytes of a frame of the schema.
DataLength(schema) == DataBits(schema) \div 8

\* The schemas of registry reg under (command, length).
Candidates(reg, command, length) ==
    {s \in reg : s.command = command /\ DataLength(s) = length}

\* register(cls): a schema that is not byte-aligned, or whose (command,
\* length) is taken, fails registration.
Register(st, schema) ==
    IF DataBits(schema) % 8 # 0
      THEN [st EXCEPT !.rejected = @ \cup {[name |-> schema.name, why |-> "alignment"]}]
    ELSE IF Candidates(st.registry, schema.command, DataLength(schema)) # {}
      THEN [st EXCEPT !.rejected = @ \cup {[name |-> schema.name, why |-> "duplicate"]}]
    ELSE [st EXCEPT !.registry = @ \cup {schema}]

RECURSIVE RegisterAll(_, _)
RegisterAll(st, schemas) ==
    IF schemas = <<>> THEN st
    ELSE RegisterAll(Register(st, Head(schemas)), Tail(schemas))

\* The resolution of (command, length): the name of the one schema
\* registered under it, or "unknown".
Resolve(reg, command, length) ==
    LET found == Candidates(reg, command, length)
    IN  IF found = {} THEN "unknown" ELSE (CHOOSE s \in found : TRUE).name

\* -------------------------------------------------------- the field codec
\* A Temperature value is counted in quarters of a degree, so that values
\* between two multiples of the scale exist; the scale of Temperature(0.5)
\* is two quarters.
Scale == 2

\* class Page(Enum(5)): the raw values with a named variant,
\* Button_page_1 = 0 .. Clock_page = 29.
Page == 0..29

\* The raw values of an Enum field that have a named variant: every other
\* enumeration of the schemas names all the raw values of its width.
Variants(field) ==
    IF field.name = "page" THEN Page ELSE 0..(2 ^ field.type.bits - 1)

\* The value of an Enum field: a named variant or a raw fallback.
Named(raw) == [named |-> TRUE, raw |-> raw]
RawFallback(raw) == [named |-> FALSE, raw |-> raw]

\* round(value / scale), half away from zero.
round(value, scale) ==
    IF value >= 0 THEN (2 * value + scale) \div (2 * scale)
    ELSE 0 - ((2 * (0 - value) + scale) \div (2 * scale))

\* The representable signed range of a field of n bits.
MinRaw(n) == 0 - 2 ^ (n - 1)
MaxRaw(n) == 2 ^ (n - 1) - 1

\* The flags of a Bitmap(n) as an unsigned integer: flag i is bit 2^i.
RECURSIVE BitmapRaw(_, _)
BitmapRaw(flags, n) ==
    IF n = 0 THEN 0
    ELSE (IF (n - 1) \in flags THEN 2 ^ (n - 1) ELSE 0) + BitmapRaw(flags, n - 1)

\* The unsigned integer a field writes for value v.
Raw(field, v) ==
    CASE field.type.kind = "UInt" -> v
      [] field.type.kind = "Bool" -> IF v THEN 1 ELSE 0
      [] field.type.kind = "Bitmap" -> BitmapRaw(v, field.type.bits)
      [] field.type.kind = "Enum" -> v.raw
      [] field.type.kind = "Temperature" ->
            round(v, Scale) % (2 ^ field.type.bits)

\* Encode fails when the value is out of the field's range.
InRange(field, v) ==
    CASE field.type.kind = "UInt" -> v \in 0..(2 ^ field.type.bits - 1)
      [] field.type.kind = "Bool" -> v \in BOOLEAN
      [] field.type.kind = "Bitmap" -> v \subseteq 0..(field.type.bits - 1)
      [] field.type.kind = "Enum" ->
            /\ v.raw \in 0..(2 ^ field.type.bits - 1)
            /\ v.named <=> v.raw \in Variants(field)
      [] field.type.kind = "Temperature" ->
            /\ round(v, Scale) >= MinRaw(field.type.bits)
            /\ round(v, Scale) <= MaxRaw(field.type.bits)

\* A mutant of EnumDecode: a raw value without a named variant becomes the
\* default variant.
EnumDecodeCoerce(field, u) ==
    IF u \in Variants(field) THEN Named(u) ELSE Named(0)

\* Enum decode: the named variant of the raw value, or the raw value.
EnumDecode(field, u) ==
    IF u \in Variants(field) THEN Named(u) ELSE RawFallback(u)

\* The value a field reads from the unsigned integer u of its width.
Value(field, u) ==
    CASE field.type.kind = "UInt" -> u
      [] field.type.kind = "Bool" -> u = 1
      [] field.type.kind = "Bitmap" ->
            {i \in 0..(field.type.bits - 1) : (u \div 2 ^ i) % 2 = 1}
      [] field.type.kind = "Enum" -> EnumDecode(field, u)
      [] field.type.kind = "Temperature" ->
            (IF u > MaxRaw(field.type.bits) THEN u - 2 ^ field.type.bits
             ELSE u) * Scale

\* The n bits of the unsigned integer u, the most significant first.
RECURSIVE ToBits(_, _)
ToBits(u, n) ==
    IF n = 0 THEN <<>> ELSE ToBits(u \div 2, n - 1) \o <<u % 2>>

\* The unsigned integer of a sequence of bits, the most significant first.
RECURSIVE FromBits(_)
FromBits(bits) ==
    IF bits = <<>> THEN 0
    ELSE 2 * FromBits(SubSeq(bits, 1, Len(bits) - 1)) + bits[Len(bits)]

\* The bytes of a sequence of bits, and the bits of a sequence of bytes.
RECURSIVE Pack(_)
Pack(bits) ==
    IF bits = <<>> THEN <<>>
    ELSE <<FromBits(SubSeq(bits, 1, 8))>> \o Pack(SubSeq(bits, 9, Len(bits)))

RECURSIVE Unpack(_)
Unpack(bytes) ==
    IF bytes = <<>> THEN <<>> ELSE ToBits(Head(bytes), 8) \o Unpack(Tail(bytes))

\* The bits of the fields from the i-th on, in the order of declaration.
RECURSIVE EncodeFields(_, _, _)
EncodeFields(fields, values, i) ==
    IF i > Len(fields) THEN <<>>
    ELSE ToBits(Raw(fields[i], values[i]), fields[i].type.bits)
            \o EncodeFields(fields, values, i + 1)

\* The data bytes of a message: _command, then the fields.
encode(schema, values) ==
    <<schema.command>> \o Pack(EncodeFields(schema.fields, values, 1))

\* The values of the fields from the i-th on, read at the cursor.
RECURSIVE DecodeFields(_, _, _, _)
DecodeFields(fields, bits, i, cursor) ==
    IF i > Len(fields) THEN <<>>
    ELSE <<Value(fields[i],
                 FromBits(SubSeq(bits, cursor + 1,
                                 cursor + fields[i].type.bits)))>>
            \o DecodeFields(fields, bits, i + 1, cursor + fields[i].type.bits)

\* The field values of the data bytes of a message of the schema.
decode(schema, data) ==
    DecodeFields(schema.fields, Unpack(Tail(data)), 1, 0)

\* The default of a field: zero, False, Bitmap.zero(), the variant of raw 0.
Default(field) ==
    CASE field.type.kind = "UInt" -> 0
      [] field.type.kind = "Bool" -> FALSE
      [] field.type.kind = "Bitmap" -> {}
      [] field.type.kind = "Enum" -> Named(0)
      [] field.type.kind = "Temperature" -> 0

Defaults(schema) == [i \in 1..Len(schema.fields) |-> Default(schema.fields[i])]

\* The values of a field that are encoded: of an enumeration all of them,
\* of the other types the ends of the range and values that set each bit.
Samples(field) ==
    CASE field.type.kind = "UInt" ->
            {0, 1, 2 ^ (field.type.bits - 1), 2 ^ field.type.bits - 2,
             2 ^ field.type.bits - 1}
      [] field.type.kind = "Bool" -> BOOLEAN
      [] field.type.kind = "Bitmap" ->
            {{}, {0, 2}, 0..(field.type.bits - 1)}
                \cup {{i} : i \in 0..(field.type.bits - 1)}
      [] field.type.kind = "Enum" ->
            {Named(r) : r \in Variants(field)}
                \cup {RawFallback(r) :
                        r \in (0..(2 ^ field.type.bits - 1)) \ Variants(field)}
      [] field.type.kind = "Temperature" ->
            ((0 - MaxQuarters)..MaxQuarters)
                \cup {MinRaw(field.type.bits) * Scale,
                      MaxRaw(field.type.bits) * Scale}

\* No message encoded yet.
NoMessage ==
    [pc |-> "idle", schema |-> "", values |-> <<>>, data |-> <<>>,
     decoded |-> <<>>]

\* ------------------------------------------------------ request dispatch
\* Strings are sequences of tokens: "/" is the slash, "_" the underscore,
\* every other token a fixed non-empty string without either.  The path
\* components and HTTP methods of the requests:
Components == {"test", "type", "foobar"}
Methods == {"GET", "get", "POST"}

\* path_info: empty, or starting with "/".
PathInfos ==
    {p \in SeqsUpTo({"/"} \cup Components, MaxPath) : p = <<>> \/ p[1] = "/"}

\* str.upper() of an HTTP method
upper(method) == IF method = "get" THEN "GET" ELSE method

\* The first index of "/" in s, 0 when there is none.
Find(s) ==
    IF \E i \in 1..Len(s) : s[i] = "/"
      THEN CHOOSE i \in 1..Len(s) : s[i] = "/" /\ \A j \in 1..(i - 1) : s[j] # "/"
      ELSE 0

\* s.split('/', 1)
split(s) ==
    IF Find(s) = 0 THEN <<s>>
    ELSE <<SubSeq(s, 1, Find(s) - 1), SubSeq(s, Find(s) + 1, Len(s))>>

\* '{}_{}'.format(path_info, method.upper())
method_name(path_info, method) == path_info \o <<"_", upper(method)>>

\* The classes of the modules: VelbusModule itself, and a subclass that
\* adds the handler test_GET of the docstring of dispatch.
Classes == {"VelbusModule", "TestModule"}

\* The handlers (attributes named <component>_<VERB>) of a class.
Handlers(cls) ==
    {<<"_", "GET">>, <<"type", "_", "GET">>}
    \cup (IF cls = "TestModule" THEN {<<"test", "_", "GET">>} ELSE {})

\* What test_GET of the subclass does: it returns a response, or raises.
Behaviours == {"return", "AttributeError", "ValueError"}

\* What a call gives: a sanic response (status, text; index lists the paths
\* of the index page), or an exception; handler and path_info record the
\* handler that was called and the path_info it was called with.
Response(status, text) ==
    [kind |-> "response", status |-> status, text |-> text, index |-> {},
     handler |-> <<>>, path_info |-> <<>>]
Raised(error) ==
    [kind |-> "raise", status |-> 0, text |-> error, index |-> {},
     handler |-> <<>>, path_info |-> <<>>]
NoResponse == Response(0, "")

\* No HTTP call is being handled.
NoCall ==
    [cls |-> "VelbusModule", path_info |-> <<>>, method |-> "GET",
     behaviour |-> "return", response |-> NoResponse]

\* The names the index page lists: dir(self) without the names that start
\* with '_', matched against (.+)_([A-Z]+).
IndexPaths(cls) ==
    {SubSeq(h, 1, Len(h) - 2) : h \in {g \in Handlers(cls) : g[1] # "_"}}

\* VelbusModule._GET
_GET(cls, path_info) ==
    IF path_info # <<>> THEN Response(404, "Not found")
    ELSE [Response(200, "index") EXCEPT !.index = IndexPaths(cls)]

\* VelbusModule.type_GET
type_GET(cls, path_info) ==
    IF path_info # <<>> THEN Response(404, "Not found")
    ELSE Response(200, cls)

\* test_GET of the subclass
test_GET(behaviour) ==
    IF behaviour = "return" THEN Response(200, "test") ELSE Raised(behaviour)

\* The handler `name` of the class called with path_info.
Call(cls, name, path_info, behaviour) ==
    [(CASE name = <<"_", "GET">> -> _GET(cls, path_info)
        [] name = <<"type", "_", "GET">> -> type_GET(cls, path_info)
        [] OTHER -> test_GET(behaviour))
     EXCEPT !.handler = name, !.path_info = path_info]

\* VelbusModule.lookup_method, then the call of what it returns:
\* getattr raises AttributeError when the class has no such attribute.
lookup_method(cls, path_info, method, rest, behaviour) ==
    IF method_name(path_info, method) \in Handlers(cls)
      THEN Call(cls, method_name(path_info, method), rest, behaviour)
      ELSE Raised("AttributeError")

\* except AttributeError (lines 119-120), around the lookup and the call
Except(result) ==
    IF result.kind = "raise" /\ result.text = "AttributeError"
      THEN Response(404, "Method not found")
      ELSE result

\* module_path[1] of dispatch: the rest of the path after the first
\* component ('' when split gave one part, line 111).
Remainder(module_path) ==
    IF Len(module_path) = 1 THEN <<>> ELSE module_path[2]

\* VelbusModule.dispatch
dispatch(cls, path_info, method, behaviour) ==
    LET path == IF path_info = <<>> THEN <<"/">> ELSE path_info
        module_path == split(Tail(path))
    IN  Except(lookup_method(cls, module_path[1], method,
                             Remainder(module_path), behaviour))

\* ------------------------------------------------------ the module state
\* The keys and values of a state (a flat mapping: every path is one key).
Keys == {"a", "b"}
Values == {"on", "off"}

\* The mappings: sets of items with one value a key.
Dicts ==
    {d \in SUBSET [key : Keys, value : Values] :
        \A x, y \in d : x.key = y.key => x = y}

HasKey(d, k) == \E x \in d : x.key = k
Without(d, k) == {x \in d : x.key # k}

\* A patch operation: add, replace or remove at a path.
Patch(op, k, v) == [op |-> op, path |-> <<k>>, value |-> v]

\* The keys of d in sorted order.
SortedKeys(d) == SelectSeq(<<"a", "b">>, LAMBDA k : HasKey(d, k))

\* The value of key k in d.
ValueOf(d, k) == (CHOOSE x \in d : x.key = k).value

\* One patch applied to a mapping.
Apply(d, p) ==
    IF p.op = "remove" THEN Without(d, p.path[1])
    ELSE Without(d, p.path[1]) \cup {[key |-> p.path[1], value |-> p.value]}

\* The patches applied in order, from d.
RECURSIVE Replay(_, _)
Replay(d, ps) == IF ps = <<>> THEN d ELSE Replay(Apply(d, Head(ps)), Tail(ps))

\* The patches of JsonPatchDict.replace(value): the contents are cleared
\* key by key and rebuilt key by key.
ReplacePatches(d, value) ==
    [i \in 1..Cardinality(d) |-> Patch("remove", SortedKeys(d)[i], "")]
    \o [i \in 1..Cardinality(value) |->
            Patch("add", SortedKeys(value)[i], ValueOf(value, SortedKeys(value)[i]))]

\* The patches ps are delivered to the callbacks of the object: the
\* observer update_state_cb keeps those it gets.
Emit(st, ps) ==
    IF "update_state_cb" \in st.callback
      THEN [st EXCEPT !.patches = @ \o ps]
      ELSE st

\* JsonPatchDict.__setitem__
SetItem(st, k, v) ==
    Emit([st EXCEPT !.contents = Apply(@, Patch("add", k, v))],
         <<Patch(IF HasKey(st.contents, k) THEN "replace" ELSE "add", k, v)>>)

\* JsonPatchDict.__delitem__
DelItem(st, k) ==
    Emit([st EXCEPT !.contents = Without(@, k)], <<Patch("remove", k, "")>>)

\* JsonPatchDict.replace(value)
JsonPatchDict_replace(st, value) ==
    Emit([st EXCEPT !.contents = value], ReplacePatches(st.contents, value))

\* A mutant of state_setter: the attribute is bound to a new object.
state_setter_rebind(st, value) ==
    [st EXCEPT !.obj = "new", !.contents = value, !.callback = {}]

\* VelbusModule.state (setter): self._state.replace(value)
state_setter(st, value) == JsonPatchDict_replace(st, value)

\* self._state after __init__ (lines 52-53): an empty JsonPatchDict with
\* update_state_cb among its callbacks.
NewState ==
    [obj |-> "init", contents |-> {}, callback |-> {"update_state_cb"},
     patches |-> <<>>, last |-> "init"]

\* ----------------------------------------------------------------- Init
\* VelbusModule.__init__
NewModule ==
    [ process_queue |-> <<>>,
      next_delayed_call |-> None,
      timers |-> {},          \* the loop's armed timers that call this module
      pc |-> "idle",          \* idle, or in the loop of _delayed_call
      fire_now |-> 0,         \* `now` of _delayed_call
      tasks |-> <<>>,         \* the awaitables given to asyncio.ensure_future
      created |-> 0,          \* history: the number of DelayedCall objects given
      plan_first |-> 0,       \* history: that number before the current plan
      given |-> <<>>,         \* history: the fire times of the queued calls, as
                              \*   given (NoneWhen once a call is popped)
      dropped |-> 0,          \* history: the entries the last clear() removed
      calls |-> <<>>,         \* history: the calls of the current plan that
                              \*   delayed_call was invoked with, in order
      fire_queue |-> <<>>,    \* history: the queue when the last timer fire began
      fire_mark |-> 0,        \* history: Len(calls) when the last timer fire began
      last |-> "init" ]       \* history: the last operation that ended

Init ==
    /\ now = 0
    /\ modules = [a \in Addresses |-> NewModule]
    /\ imported = {}
    /\ registry = {}
    /\ rejected = {}
    /\ query = [command |-> 0, length |-> 0, result |-> "none"]
    /\ http = NoCall
    /\ states = [a \in Addresses |-> NewState]
    /\ wire = NoMessage

\* The event loop runs one callback at a time.
LoopIdle == \A a \in Addresses : modules[a].pc = "idle"

\* ---------------------------------------------------------------- steps
\* module.delayed_calls = value, from a callback of the event loop
SetStep(m, ws, t) ==
    [delayed_calls_setter(m, Plan(ws, m.created), t) EXCEPT !.last = "replace"]

\* The timers of m the event loop may run at time t.
DueTimers(m, t) == {tm \in m.timers : tm.deadline <= t + EarlySlack}

\* The event loop runs the timer callback _delayed_call for handle tm: the
\* handle has fired, `now` is read (line 168).
FireStep(m, tm, t) ==
    [m EXCEPT !.timers = @ \ {tm},
              !.pc = "loop",
              !.fire_now = t,
              !.fire_queue = m.process_queue,
              !.fire_mark = Len(m.calls)]

\* A mutant of LoopCondition: the head is popped whatever its fire time.
LoopConditionNoTime(m) == Len(m.process_queue) > 0

\* The condition of the while loop of _delayed_call (line 170).
LoopCondition(m) ==
    /\ Len(m.process_queue) > 0
    /\ Key(m.process_queue[1]) <= m.fire_now

\* What self.delayed_call(call_info) does: it returns a plain value, returns
\* an awaitable, raises, or replaces the plan (and returns).
Outcomes(m) ==
    {[kind |-> k, ws |-> <<>>] : k \in {"return", "raise"}}
    \cup (IF Len(m.tasks) < MaxTasks THEN {[kind |-> "awaitable", ws |-> <<>>]} ELSE {})
    \cup {[kind |-> "replace", ws |-> ws] : ws \in PlanWhens(m)}

\* One iteration of the while loop of _delayed_call (lines 171-174): the
\* head is popped, delayed_call is invoked with it and does out.
LoopBody(m, out, t) ==
    LET call_info == m.process_queue[1]
        popped == [m EXCEPT !.process_queue = SortedListPop(m.process_queue),
                            !.calls = Append(m.calls, call_info),
                            !.given[call_info.id - m.plan_first] = NoneWhen]
    IN  CASE out.kind = "return" -> popped
          [] out.kind = "awaitable" ->
                [popped EXCEPT !.tasks = Append(@, call_info)]
          [] out.kind = "raise" ->
                [popped EXCEPT !.pc = "idle", !.last = "raise"]
          [] out.kind = "replace" ->
                delayed_calls_setter(popped, Plan(out.ws, popped.created), t)

\* The loop of _delayed_call ends: the timer is re-armed (line 176).
EndStep(m, t) ==
    [_schedule_next_delayed_call(m, t) EXCEPT !.pc = "idle", !.last = "fire"]

\* The event loop runs the oldest task made by asyncio.ensure_future (its
\* ready queue is first in, first out).
TaskStep(m) == [m EXCEPT !.tasks = Tail(@)]

\* -------------------------------------------------------------- actions
\* Time passes.
Tick ==
    /\ now < MaxTime
    /\ now' = now + 1
    /\ UNCHANGED <<modules, reg_vars, aux_vars>>

SetDelayedCalls(a) ==
    /\ LoopIdle
    /\ \E ws \in PlanWhens(modules[a]) :
            modules' = [modules EXCEPT ![a] = SetStep(@, ws, now)]
    /\ UNCHANGED <<now, reg_vars, aux_vars>>

TimerFire(a) ==
    /\ LoopIdle
    /\ \E tm \in DueTimers(modules[a], now) :
            modules' = [modules EXCEPT ![a] = FireStep(@, tm, now)]
    /\ UNCHANGED <<now, reg_vars, aux_vars>>

DelayedCallLoop(a) ==
    /\ modules[a].pc = "loop"
    /\ LoopCondition(modules[a])
    /\ \E out \in Outcomes(modules[a]) :
            modules' = [modules EXCEPT ![a] = LoopBody(@, out, now)]
    /\ UNCHANGED <<now, reg_vars, aux_vars>>

DelayedCallEnd(a) ==
    /\ modules[a].pc = "loop"
    /\ ~LoopCondition(modules[a])
    /\ modules' = [modules EXCEPT ![a] = EndStep(@, now)]
    /\ UNCHANGED <<now, reg_vars, aux_vars>>

TaskRun(a) ==
    /\ LoopIdle
    /\ Len(modules[a].tasks) > 0
    /\ modules' = [modules EXCEPT ![a] = TaskStep(@)]
    /\ UNCHANGED <<now, reg_vars, aux_vars>>

\* One module runtime, at address 1.
Next ==
    \/ Tick
    \/ SetDelayedCalls(1)
    \/ TimerFire(1)
    \/ DelayedCallLoop(1)
    \/ DelayedCallEnd(1)
    \/ TaskRun(1)

Spec == Init /\ [][Next]_vars

\* ------------------------------------------- two modules, the same plans
\* The plan ws with every naive fire time marked UTC by the caller.
MarkUtc(ws) ==
    [i \in 1..Len(ws) |->
        IF ws[i].set /\ ws[i].tzinfo = "naive" THEN DateTime(ws[i].wall, "utc") ELSE ws[i]]

\* Module 1 is given a plan, module 2 the same plan with its naive fire
\* times marked UTC.
TwinSet ==
    /\ LoopIdle
    /\ \E ws \in PlanWhens(modules[1]) :
            modules' = [modules EXCEPT ![1] = SetStep(@, ws, now),
                                       ![2] = SetStep(@, MarkUtc(ws), now)]
    /\ UNCHANGED <<now, reg_vars, aux_vars>>

\* The timers of both modules fire.
TwinFire ==
    /\ LoopIdle
    /\ \E t1 \in DueTimers(modules[1], now), t2 \in DueTimers(modules[2], now) :
            modules' = [modules EXCEPT ![1] = FireStep(@, t1, now),
                                       ![2] = FireStep(@, t2, now)]
    /\ UNCHANGED <<now, reg_vars, aux_vars>>

\* Both loops pop their heads, and the handlers do the same.
TwinLoop ==
    /\ \A a \in {1, 2} : modules[a].pc = "loop" /\ LoopCondition(modules[a])
    /\ \E out \in Outcomes(modules[1]) :
            modules' = [modules EXCEPT
                ![1] = LoopBody(@, out, now),
                ![2] = LoopBody(@, [out EXCEPT !.ws = MarkUtc(out.ws)], now)]
    /\ UNCHANGED <<now, reg_vars, aux_vars>>

\* Both loops end.
TwinEnd ==
    /\ \A a \in {1, 2} : modules[a].pc = "loop" /\ ~LoopCondition(modules[a])
    /\ modules' = [modules EXCEPT ![1] = EndStep(@, now), ![2] = EndStep(@, now)]
    /\ UNCHANGED <<now, reg_vars, aux_vars>>

\* The oldest task of each module runs.
TwinTask ==
    /\ LoopIdle
    /\ \A a \in {1, 2} : Len(modules[a].tasks) > 0
    /\ modules' = [modules EXCEPT ![1] = TaskStep(@), ![2] = TaskStep(@)]
    /\ UNCHANGED <<now, reg_vars, aux_vars>>

NextTwin ==
    \/ Tick
    \/ TwinSet
    \/ TwinFire
    \/ TwinLoop
    \/ TwinEnd
    \/ TwinTask

SpecTwin == Init /\ [][NextTwin]_vars

\* -------------------------------------------------- the registry's actions
\* A message file is imported: its classes are registered in their order.
Import(file) ==
    /\ file \notin imported
    /\ imported' = imported \cup {file}
    /\ LET st == RegisterAll([registry |-> registry, rejected |-> rejected],
                             Declared(file))
       IN  /\ registry' = st.registry
           /\ rejected' = st.rejected
    /\ UNCHANGED <<query, sched_vars, aux_vars>>

\* After start-up a frame with the given command and number of data bytes
\* is resolved.
ResolveFrame(command, length) ==
    /\ imported = Files
    /\ query' = [command |-> command, length |-> length,
                 result |-> Resolve(registry, command, length)]
    /\ UNCHANGED <<imported, registry, rejected, sched_vars, aux_vars>>

\* The command bytes of the frames to resolve (every declared command, the
\* command after it and the two ends of the byte) and their numbers of data
\* bytes.
Commands ==
    {s.command : s \in AllDeclared} \cup {s.command + 1 : s \in AllDeclared} \cup {0, 255}
Lengths == 0..MaxDataBytes

NextReg ==
    \/ \E file \in Files : Import(file)
    \/ \E command \in Commands, length \in Lengths : ResolveFrame(command, length)

SpecReg == Init /\ [][NextReg]_vars

\* --------------------------------------------------- the state's actions
\* The observer of the state st has room for n more patches.
Room(st, n) == Len(st.patches) + n <= MaxPatches

\* module.state = value, for the module at a
StateAssign(a, value) ==
    /\ Room(states[a], Cardinality(states[a].contents) + Cardinality(value))
    /\ states' = [states EXCEPT ![a] =
                    [state_setter(@, value) EXCEPT !.last = "assign"]]
    /\ UNCHANGED <<sched_vars, reg_vars, http, wire>>

\* module.state[k] = v
StateSetItem(a, k, v) ==
    /\ Room(states[a], 1)
    /\ states' = [states EXCEPT ![a] = [SetItem(@, k, v) EXCEPT !.last = "set"]]
    /\ UNCHANGED <<sched_vars, reg_vars, http, wire>>

\* del module.state[k]
StateDelItem(a, k) ==
    /\ Room(states[a], 1)
    /\ HasKey(states[a].contents, k)
    /\ states' = [states EXCEPT ![a] = [DelItem(@, k) EXCEPT !.last = "del"]]
    /\ UNCHANGED <<sched_vars, reg_vars, http, wire>>

\* The state of one module, at address 1.
NextState ==
    \/ \E value \in Dicts : StateAssign(1, value)
    \/ \E k \in Keys, v \in Values : StateSetItem(1, k, v)
    \/ \E k \in Keys : StateDelItem(1, k)

SpecState == Init /\ [][NextState]_vars

\* ------------------------------------- two modules, each with its own plans
\* A mutant of Own: _process_queue is one list for all the modules (an
\* attribute of the class).
OwnButQueue(ms, a, m) ==
    [b \in DOMAIN ms |->
        IF b = a THEN m ELSE [ms[b] EXCEPT !.process_queue = m.process_queue]]

\* The attributes that __init__ sets on self belong to the one module: a
\* method run on the module at a, which leaves it as m, changes no other.
Own(ms, a, m) == [ms EXCEPT ![a] = m]

\* The DelayedCall objects given to all the modules so far.
RECURSIVE SumCreated(_, _)
SumCreated(ms, as) ==
    IF as = {} THEN 0
    ELSE LET a == CHOOSE a \in as : TRUE
         IN  ms[a].created + SumCreated(ms, as \ {a})

\* The plans that may still be given: at most one call, its fire time in
\* UTC; MaxCalls bounds the DelayedCall objects of all modules together.
OwnPlanWhens ==
    SeqsUpTo({DateTime(w, "utc") : w \in Walls},
             IF SumCreated(modules, Addresses) < MaxCalls THEN 1 ELSE 0)

OwnSet(a) ==
    /\ LoopIdle
    /\ \E ws \in OwnPlanWhens :
            modules' = Own(modules, a, SetStep(modules[a], ws, now))
    /\ UNCHANGED <<now, reg_vars, aux_vars>>

OwnFire(a) ==
    /\ LoopIdle
    /\ \E tm \in DueTimers(modules[a], now) :
            modules' = Own(modules, a, FireStep(modules[a], tm, now))
    /\ UNCHANGED <<now, reg_vars, aux_vars>>

\* The handlers of these modules return a plain value or raise.
OwnLoop(a) ==
    /\ modules[a].pc = "loop"
    /\ LoopCondition(modules[a])
    /\ \E out \in Outcomes(modules[a]) :
            /\ out.kind \in {"return", "raise"}
            /\ modules' = Own(modules, a, LoopBody(modules[a], out, now))
    /\ UNCHANGED <<now, reg_vars, aux_vars>>

OwnEnd(a) ==
    /\ modules[a].pc = "loop"
    /\ ~LoopCondition(modules[a])
    /\ modules' = Own(modules, a, EndStep(modules[a], now))
    /\ UNCHANGED <<now, reg_vars, aux_vars>>

\* The module at a publishes its first state.
OwnState(a) ==
    /\ LoopIdle
    /\ states[a] = NewState
    /\ StateAssign(a, {[key |-> "a", value |-> "on"]})

NextOwn ==
    \/ Tick
    \/ \E a \in Addresses : OwnSet(a)
    \/ \E a \in Addresses : OwnFire(a)
    \/ \E a \in Addresses : OwnLoop(a)
    \/ \E a \in Addresses : OwnEnd(a)
    \/ \E a \in Addresses : OwnState(a)

SpecOwn == Init /\ [][NextOwn]_vars

\* ------------------------------------------------ the dispatch's actions
\* An HTTP call for a module of class cls is passed to dispatch.
Dispatch(cls, path_info, method, behaviour) ==
    /\ http = NoCall
    /\ http' = [cls |-> cls, path_info |-> path_info, method |-> method,
                behaviour |-> behaviour,
                response |-> dispatch(cls, path_info, method, behaviour)]
    /\ UNCHANGED <<sched_vars, reg_vars, states, wire>>

\* The caller of dispatch has what it returned (or raised).
DispatchReturn ==
    /\ http # NoCall
    /\ http' = NoCall
    /\ UNCHANGED <<sched_vars, reg_vars, states, wire>>

NextHttp ==
    \/ \E cls \in Classes, path_info \in PathInfos, method \in Methods,
          behaviour \in Behaviours :
            Dispatch(cls, path_info, method, behaviour)
    \/ DispatchReturn

SpecHttp == Init /\ [][NextHttp]_vars

\* ======================================================== the scheduler claims
\* The calls delayed_call was invoked with since the last timer fire began.
FireCalls(m) == SubSeq(m.calls, m.fire_mark + 1, Len(m.calls))

\* A timer fire of m has ended (by the end of its loop or by an exception)
\* and no operation has ended since.
FireEnded(m) == m.pc = "idle" /\ m.last \in {"fire", "raise"}

\* The queue of m held three entries T1 < T2 < T3 when the last timer fire
\* began, T1 and T2 not later than the time of the fire and T3 later.
TwoDueOneLater(m) ==
    /\ Len(m.fire_queue) = 3
    /\ Key(m.fire_queue[1]) < Key(m.fire_queue[2])
    /\ Key(m.fire_queue[2]) <= m.fire_now
    /\ m.fire_now < Key(m.fire_queue[3])

\* The only armed timer of m is the stored handle, with deadline d.
ArmedFor(m, d) ==
    /\ m.next_delayed_call # None
    /\ m.timers = {[h |-> m.next_delayed_call, deadline |-> d]}

\* C1 (scheduler ordering): a timer fire that begins with entries T1 < T2 < T3
\* in the queue, T1 and T2 due and T3 not, invokes delayed_call for exactly
\* the T1 and T2 entries, in that order, and ends with exactly one armed
\* timer, whose deadline is T3.
C1_SchedulerOrdering ==
    \A a \in Addresses :
        LET m == modules[a]
        IN  (FireEnded(m) /\ TwoDueOneLater(m)) =>
                /\ FireCalls(m) = SubSeq(m.fire_queue, 1, 2)
                /\ m.process_queue = <<m.fire_queue[3]>>
                /\ ArmedFor(m, Key(m.fire_queue[3]))

\* C2 (single timer): a module never has more than one armed timer, and an
\* armed timer is always the handle stored in _next_delayed_call, so that
\* the next re-arm cancels it before it creates a new one.
C2_SingleTimer ==
    \A a \in Addresses :
        LET m == modules[a]
        IN  /\ Cardinality(m.timers) <= 1
            /\ \A tm \in m.timers : tm.h = m.next_delayed_call

\* C2's case: a second plan was given while the timer of the first was armed
\* (no timer fire has begun yet), and the timer of the second is armed.
C2_Witness ==
    LET m == modules[1]
    IN  /\ m.last = "replace"
        /\ m.plan_first = 1
        /\ m.dropped = 1
        /\ m.fire_queue = <<>>
        /\ m.timers # {}

\* The calls of m that belong to its current plan have the ids after
\* plan_first.
InPlan(m, c) == c.id > m.plan_first

\* C3 (replace semantics): every entry delayed_call is invoked with after a
\* replace is an entry of the new plan, the queue holds no entry of an older
\* plan, and a replace leaves the tasks of the entries popped before it
\* alone.
C3_ReplaceSemantics ==
    /\ [](\A a \in Addresses :
            LET m == modules[a]
            IN  /\ \A i \in 1..Len(m.calls) : InPlan(m, m.calls[i])
                /\ \A i \in 1..Len(m.process_queue) : InPlan(m, m.process_queue[i]))
    /\ [][\A a \in Addresses :
            modules'[a].plan_first # modules[a].plan_first =>
                modules'[a].tasks = modules[a].tasks]_vars

\* C3's case: a plan with a queued entry was replaced while the task of an
\* entry popped before was pending, and an entry of the new plan was invoked.
C3_Witness ==
    LET m == modules[1]
    IN  /\ m.plan_first > 0
        /\ m.dropped > 0
        /\ Len(m.calls) > 0
        /\ Len(m.tasks) > 0
        /\ m.tasks[1].id <= m.plan_first

\* The module at a takes a step of the loop of _delayed_call: delayed_call
\* is invoked with the head of the queue (the step stays in the loop, or
\* leaves it by an exception).
Invokes(a) ==
    /\ modules[a].pc = "loop"
    /\ modules'[a] # modules[a]
    /\ modules'[a].pc = "loop" \/ modules'[a].last = "raise"

\* C4 (no early fire): delayed_call is never invoked with an entry whose fire
\* time is later than the current time; and a timer fire that begins before
\* the fire time of the head of the queue invokes nothing, leaves the queue
\* as it was and re-arms the timer for the head.
C4_NoEarlyFire ==
    /\ [][\A a \in Addresses :
            Invokes(a) => Key(modules[a].process_queue[1]) <= now]_vars
    /\ [](\A a \in Addresses :
            LET m == modules[a]
            IN  (/\ m.pc = "idle"
                 /\ m.last = "fire"
                 /\ Len(m.fire_queue) > 0
                 /\ Key(m.fire_queue[1]) > m.fire_now) =>
                    /\ m.process_queue = m.fire_queue
                    /\ FireCalls(m) = <<>>
                    /\ ArmedFor(m, Key(m.fire_queue[1])))

\* C4's case: a timer fire that began before the fire time of the head has
\* ended.
C4_Witness ==
    LET m == modules[1]
    IN  /\ m.pc = "idle"
        /\ m.last = "fire"
        /\ Len(m.fire_queue) > 0
        /\ Key(m.fire_queue[1]) > m.fire_now
        /\ m.timers # {}

\* C5 (stable tie-break): the entries of one plan are invoked in
\* non-decreasing order of fire time, entries of equal fire time in the
\* order in which they were inserted (the order of their ids).
C5_StableOrder ==
    \A a \in Addresses :
        LET m == modules[a]
        IN  \A i, j \in 1..Len(m.calls) :
                i < j =>
                    \/ Key(m.calls[i]) < Key(m.calls[j])
                    \/ /\ Key(m.calls[i]) = Key(m.calls[j])
                       /\ m.calls[i].id < m.calls[j].id

\* C5's case: three entries of one plan were invoked, two of them with the
\* same fire time and one with another, given in another order than they
\* were invoked in.
C5_Witness ==
    LET m == modules[1]
    IN  /\ Len(m.calls) = 3
        /\ Key(m.calls[1]) < Key(m.calls[2])
        /\ Key(m.calls[2]) = Key(m.calls[3])
        /\ m.calls[1].id > m.calls[2].id

\* C6 (re-arm after every operation): whenever no callback of the module is
\* running, a timer is armed if and only if the queue is not empty, and the
\* armed timer's deadline is the fire time of the head of the queue.
C6_RearmAfterOperation ==
    \A a \in Addresses :
        LET m == modules[a]
        IN  m.pc = "idle" =>
                /\ m.timers # {} <=> Len(m.process_queue) > 0
                /\ Len(m.process_queue) > 0 => ArmedFor(m, Key(m.process_queue[1]))

\* The step of module a is a call of the delayed_calls setter with a plan of
\* n calls, n > 0.
SetterGiven(a, n) == modules'[a].created = modules[a].created + n

\* q holds every entry of p.
Holds(q, p) == \A i \in 1..Len(p) : \E j \in 1..Len(q) : q[j] = p[i]

\* C7 as the spec states it: scheduling one call (by the delayed_calls
\* setter, from a callback of its own) inserts the call and keeps the
\* entries that are in the queue.
C7_ScheduleKeepsEntries ==
    [][\A a \in Addresses :
        (modules[a].pc = "idle" /\ SetterGiven(a, 1)) =>
            /\ Holds(modules'[a].process_queue, modules[a].process_queue)
            /\ Len(modules'[a].process_queue) = Len(modules[a].process_queue) + 1]_vars

\* The fire time given as w, as the setter leaves it at time t.
AsQueued(w, t) ==
    IF ~w.set THEN DateTime(t, "utc")
    ELSE IF w.tzinfo = "naive" THEN DateTime(w.wall, "utc")
    ELSE w

\* C7 (amended): a call of the delayed_calls setter with a plan of one or
\* more calls leaves in the queue the calls of the plan and nothing else
\* (the entries queued before are removed), in the order of their fire
\* times, a naive fire time marked UTC with its wall clock unchanged, and
\* re-arms the single timer for the head of the new queue.
C7_SetterReplaces ==
    [][\A a \in Addresses :
        \A n \in 1..MaxCalls :
            SetterGiven(a, n) =>
                LET m == modules'[a]
                    q == m.process_queue
                IN  /\ Len(q) = n
                    /\ \A i \in 1..n :
                        /\ q[i].id > modules[a].created
                        /\ q[i].when = AsQueued(m.given[q[i].id - m.plan_first], now)
                    /\ \A i \in 1..(n - 1) : Key(q[i]) <= Key(q[i + 1])
                    /\ ArmedFor(m, Key(q[1]))]_vars

\* C7's case: a plan of one call with a naive fire time was given while
\* another entry was queued.
C7_Witness ==
    LET m == modules[1]
    IN  /\ m.last = "replace"
        /\ m.dropped > 0
        /\ Len(m.given) = 1
        /\ m.given[1].set
        /\ m.given[1].tzinfo = "naive"
        /\ Len(m.process_queue) = 1

\* C8 (timezone normalisation): a module given plans with naive fire times
\* and a module given the same plans with those fire times marked UTC have
\* the same queue, the same armed timer and the same sequence of
\* invocations, whatever happens to both.
C8_TimezoneNormalisation ==
    /\ modules[1].process_queue = modules[2].process_queue
    /\ modules[1].timers = modules[2].timers
    /\ modules[1].calls = modules[2].calls

\* C8's case: the plans differ (module 1 was given a naive fire time), a
\* call of the plan was invoked and a timer is armed for a queued call that
\* was given with a naive fire time.
C8_Witness ==
    LET m == modules[1]
        q == m.process_queue
    IN  /\ modules[2].given # m.given
        /\ Len(m.calls) > 0
        /\ Len(q) > 0
        /\ m.given[q[1].id - m.plan_first].set
        /\ m.given[q[1].id - m.plan_first].tzinfo = "naive"
        /\ ArmedFor(m, Key(q[1]))
        /\ m.pc = "idle"

\* ========================================================= the schema claims
\* C9 (resolution by command and length): no registration fails for a taken
\* (command, length), no two registered schemas have the same command and
\* length, and command 0xED resolves to ModuleStatus8PBU with 7 data bytes,
\* to ModuleStatus6IN with 5, to ModuleStatusVMBELO with 8 and to no schema
\* with 6.
C9_Resolution ==
    /\ \A r \in rejected : r.why # "duplicate"
    /\ \A s1, s2 \in registry :
            (s1.command = s2.command /\ DataLength(s1) = DataLength(s2)) => s1 = s2
    /\ imported = Files => \A s \in AllDeclared : s \in registry
    /\ (query.result # "none" /\ query.command = 237) =>
            /\ query.length = 7 => query.result = "ModuleStatus8PBU"
            /\ query.length = 5 => query.result = "ModuleStatus6IN"
            /\ query.length = 8 => query.result = "ModuleStatusVMBELO"
            /\ query.length = 6 => query.result = "unknown"

\* C9's case: every file is imported and (0xED, 6) was resolved.
C9_Witness ==
    /\ imported = Files
    /\ Cardinality(registry) = 8
    /\ query = [command |-> 237, length |-> 6, result |-> "unknown"]

\* C10 (byte alignment): the bits of the fields of every declared schema
\* add up to a multiple of 8, and no registration fails for alignment.
C10_ByteAlignment ==
    /\ \A s \in AllDeclared : PayloadBits(s) % 8 = 0
    /\ \A r \in rejected : r.why # "alignment"
    /\ \A s \in registry : DataBits(s) = 8 * DataLength(s)

\* C10's case: every file is imported, so every declared schema went
\* through registration.
C10_Witness ==
    /\ imported = Files
    /\ rejected = {}
    /\ {s.name : s \in registry} = {s.name : s \in AllDeclared}

\* ============================================ the scheduler claims, continued
\* C14 (a handler failure does not stall the scheduler): when a timer fire
\* has ended by an exception of delayed_call, the module is not left with a
\* queue that is not empty and no armed timer.
C14_HandlerFailureNoStall ==
    \A a \in Addresses :
        LET m == modules[a]
        IN  (m.pc = "idle" /\ m.last = "raise") =>
                ~(Len(m.process_queue) > 0 /\ m.timers = {})

\* A task made by asyncio.ensure_future during the last timer fire of m is
\* still to run.
TaskOfFirePending(m) ==
    \E i \in 1..Len(m.tasks) :
        \E j \in 1..Len(FireCalls(m)) : m.tasks[i] = FireCalls(m)[j]

\* C15 (the firing loop does not block on an asynchronous handler): the
\* body of a task runs only when no loop of _delayed_call is in progress;
\* when a timer fire that made a task has ended and the task is still to
\* run, every entry that was due at the fire has been popped and the timer
\* is re-armed for the head of the queue; and the tasks wait in the order in
\* which their entries were invoked.
C15_AsyncNonBlocking ==
    /\ [][\A a \in Addresses :
            Len(modules'[a].tasks) < Len(modules[a].tasks) =>
                modules[a].pc = "idle"]_vars
    /\ [](\A a \in Addresses :
            LET m == modules[a]
            IN  /\ (FireEnded(m) /\ TaskOfFirePending(m)) =>
                        /\ ~LoopCondition(m)
                        /\ Len(m.process_queue) > 0 =>
                                ArmedFor(m, Key(m.process_queue[1]))
                /\ \A i, j \in 1..Len(m.tasks) :
                        i < j => \/ m.tasks[i].id <= m.plan_first
                                 \/ /\ m.tasks[j].id > m.plan_first
                                    /\ Key(m.tasks[i]) <= Key(m.tasks[j]))

\* A handler invoked by the last timer fire of m replaced the plan: the
\* queue the fire began with held an entry of an older plan.
ReplacedInFire(m) ==
    /\ m.pc = "loop" \/ FireEnded(m)
    /\ Len(m.fire_queue) > 0
    /\ m.fire_queue[1].id <= m.plan_first

\* C16 (re-entrant replace during firing): after a handler of a timer fire
\* has replaced the plan, the fire invokes only entries of the new plan that
\* are due, the queue holds only entries of the new plan, and when the fire
\* has ended the only armed timer is for the head of the queue, which is not
\* due (no timer when the queue is empty).
C16_ReentrantReplace ==
    \A a \in Addresses :
        LET m == modules[a]
        IN  ReplacedInFire(m) =>
                /\ \A i \in 1..Len(m.calls) :
                        InPlan(m, m.calls[i]) /\ Key(m.calls[i]) <= m.fire_now
                /\ \A i \in 1..Len(m.process_queue) : InPlan(m, m.process_queue[i])
                /\ Cardinality(m.timers) <= 1
                /\ FireEnded(m) =>
                        IF Len(m.process_queue) = 0 THEN m.timers = {}
                        ELSE /\ ArmedFor(m, Key(m.process_queue[1]))
                             /\ ~LoopCondition(m)

\* C17 (at most once): an entry is out of the queue from the moment
\* delayed_call is invoked with it, and no entry of a plan is invoked twice.
C17_AtMostOnce ==
    \A a \in Addresses :
        LET m == modules[a]
        IN  /\ \A i, j \in 1..Len(m.calls) : i # j => m.calls[i].id # m.calls[j].id
            /\ \A i \in 1..Len(m.calls) :
                    \A j \in 1..Len(m.process_queue) :
                        m.process_queue[j].id # m.calls[i].id

\* C17's case: two timer fires of one plan have each invoked an entry, and
\* a third entry of the plan is still queued.
C17_Witness ==
    LET m == modules[1]
    IN  /\ m.fire_mark > 0
        /\ Len(m.calls) > m.fire_mark
        /\ Len(m.process_queue) > 0
        /\ m.pc = "idle"

\* The fire time the entry e of the queue of m was given with.
GivenWhen(m, e) == m.given[e.id - m.plan_first]

\* C20 (an entry without a fire time): the setter gives an entry whose
\* `when` is None the current UTC time and queues it before every entry
\* with a later fire time; and once a timer fire that began after the
\* replace has ended, no entry given without a fire time is left in the
\* queue.
C20_NoneFiresAtNextFire ==
    /\ [][\A a \in Addresses :
            \A n \in 1..MaxCalls :
                SetterGiven(a, n) =>
                    LET m == modules'[a]
                        q == m.process_queue
                    IN  \A i \in 1..Len(q) :
                            ~GivenWhen(m, q[i]).set =>
                                /\ q[i].when = UtcNow(now)
                                /\ \A j \in 1..Len(q) :
                                        Key(q[j]) > Key(q[i]) => i < j]_vars
    /\ [](\A a \in Addresses :
            LET m == modules[a]
            IN  (FireEnded(m) /\ ~ReplacedInFire(m)) =>
                    \A i \in 1..Len(m.process_queue) :
                        GivenWhen(m, m.process_queue[i]).set)

\* ========================================================= the dispatch claims
\* The path of the last call as dispatch reads it ('' is taken as '/').
CalledPath == IF http.path_info = <<>> THEN <<"/">> ELSE http.path_info

\* C12 (the dispatch contract of the docstring): the handler that is called
\* is named by the first component of the path, '_' and the upper-cased
\* method, and is passed the remainder of the path, so that the path is
\* '/', the first component and what the handler was passed; GET
\* /test/foobar calls test_GET with path_info '/foobar'.
C12_DispatchContract ==
    LET r == http.response
    IN  /\ r.handler # <<>> =>
                /\ r.handler[Len(r.handler)] = upper(http.method)
                /\ r.handler[Len(r.handler) - 1] = "_"
                /\ CalledPath =
                        <<"/">> \o SubSeq(r.handler, 1, Len(r.handler) - 2) \o r.path_info
        /\ (/\ http.cls = "TestModule"
            /\ http.path_info = <<"/", "test", "/", "foobar">>
            /\ http.method = "GET"
            /\ http.behaviour = "return") =>
                /\ r.handler = <<"test", "_", "GET">>
                /\ r.path_info = <<"/", "foobar">>

\* The name of the handler of the last call: the first component of the
\* path, '_' and the upper-cased method; and the rest of the path as
\* dispatch passes it on.
CalledName == method_name(split(Tail(CalledPath))[1], http.method)
CalledRest == Remainder(split(Tail(CalledPath)))

\* C19 (404 exactly for a missing handler): dispatch returns the 404
\* response 'Method not found' exactly when the class has no handler of the
\* called name; when it has one, dispatch returns what the handler returns
\* or raises what it raises; and GET with an empty path gets the index of
\* _GET.
C19_MethodNotFound ==
    http # NoCall =>
        /\ http.response = Response(404, "Method not found")
                <=> CalledName \notin Handlers(http.cls)
        /\ CalledName \in Handlers(http.cls) =>
                http.response =
                    Call(http.cls, CalledName, CalledRest, http.behaviour)
        /\ (http.path_info = <<>> /\ http.method = "GET") =>
                /\ http.response.handler = <<"_", "GET">>
                /\ http.response.status = 200
                /\ http.response.text = "index"

\* ============================================================ the state claim
\* C13 (wholesale replacement keeps the replay invariant): an assignment to
\* module.state leaves self._state the same object with the same callbacks
\* and gives it the assigned contents, and the patches the observer has got
\* since creation, replayed from the empty state, give the current
\* contents.
C13_ReplaceKeepsReplay ==
    /\ [](Replay({}, states[1].patches) = states[1].contents)
    /\ [][/\ states'[1].obj = states[1].obj
          /\ states'[1].callback = states[1].callback]_vars
    /\ [](states[1].callback = {"update_state_cb"})

\* C13's case: a state with contents was assigned other contents that are
\* not empty, and the observer got the removal of the old and more since
\* the assignment.
C13_Witness ==
    /\ states[1].last = "set"
    /\ states[1].contents # {}
    /\ \E i \in 1..Len(states[1].patches) :
            /\ states[1].patches[i].op = "remove"
            /\ i < Len(states[1].patches) - 1
            /\ states[1].patches[i + 1].op = "add"
            /\ i > 1

\* ======================================================= the isolation claim
\* C18 (runtime isolation): a step that changes the module at one address
\* (its queue, its timers, its stored handle or anything else of it) or its
\* state leaves the module and the state at every other address as they
\* were, and a step of the scheduler changes no state.
C18_RuntimeIsolation ==
    [][/\ \A a \in Addresses :
            (modules'[a] # modules[a] \/ states'[a] # states[a]) =>
                \A b \in Addresses \ {a} :
                    /\ modules'[b] = modules[b]
                    /\ states'[b] = states[b]
       /\ modules' # modules => states' = states]_vars

\* C18's case: the timer of module 1 has fired on a queued entry and module
\* 1 has been given a new plan since, while module 2, which has published a
\* state, has an entry queued and its timer armed.
C18_Witness ==
    /\ modules[1].last = "replace"
    /\ modules[1].fire_queue # <<>>
    /\ Len(modules[1].process_queue) > 0
    /\ Len(modules[2].process_queue) > 0
    /\ modules[2].timers # {}
    /\ modules[2].last = "replace"
    /\ states[2].contents # {}
    /\ states[1].contents = {}

\* --------------------------------------------------- the codec's actions
SchemaOf(name) == CHOOSE schema \in AllDeclared : schema.name = name

\* The field values to encode: the defaults, with the i-th field and the
\* j-th (the same or the next one) given sampled values.
Varied(schema, i, v, j, w) ==
    [[Defaults(schema) EXCEPT ![i] = v] EXCEPT ![j] = w]

\* A message of the schema with the given field values is encoded.
EncodeStep(schema, values) ==
    [pc |-> "encoded", schema |-> schema.name, values |-> values,
     data |-> encode(schema, values), decoded |-> <<>>]

\* The data bytes of the last message are decoded with its schema.
DecodeStep(w) ==
    [w EXCEPT !.pc = "decoded",
              !.decoded = decode(SchemaOf(w.schema), w.data)]

Encode(schema) ==
    /\ wire.pc = "idle"
    /\ \/ wire' = EncodeStep(schema, Defaults(schema))
       \/ \E i \in 1..Len(schema.fields) :
            \E j \in {i, i + 1} \cap (1..Len(schema.fields)) :
              \E v \in Samples(schema.fields[i]), w \in Samples(schema.fields[j]) :
                /\ InRange(schema.fields[i], v)
                /\ InRange(schema.fields[j], w)
                /\ wire' = EncodeStep(schema, Varied(schema, i, v, j, w))
    /\ UNCHANGED <<sched_vars, reg_vars, http, states>>

Decode ==
    /\ wire.pc = "encoded"
    /\ wire' = DecodeStep(wire)
    /\ UNCHANGED <<sched_vars, reg_vars, http, states>>

\* The decoded message is handed on; the next one can be encoded.
Handled ==
    /\ wire.pc = "decoded"
    /\ wire' = NoMessage
    /\ UNCHANGED <<sched_vars, reg_vars, http, states>>

NextCodec ==
    \/ \E schema \in AllDeclared : Encode(schema)
    \/ Decode
    \/ Handled

SpecCodec == Init /\ [][NextCodec]_vars

\* C11 as stated: for every declared schema and every combination of
\* in-range field values, decoding the encoded payload returns the same
\* field values.
C11_RoundTripExact ==
    wire.pc = "decoded" => wire.decoded = wire.values

\* The distance of a decoded Temperature from the value encoded.
Distance(a, b) == IF a >= b THEN a - b ELSE b - a

\* C11, amended: for every declared schema and every combination of
\* in-range field values, decoding the encoded data bytes returns the same
\* value for every field that is not a Temperature, a raw enumeration value
\* without a named variant included (it stays a raw value); a Temperature
\* decodes to the multiple of its scale nearest to the value encoded (half
\* away from zero), at most half the scale from it and the same value when
\* that was a multiple of the scale. The fields lie MSB-first in the order
\* of their declaration: the first Bitmap(8) of ModuleStatusVMBELO is the
\* byte after _command, its display, screen_saver, menu_page and page are
\* the last byte from the high bit down.
C11_RoundTrip ==
    wire.pc = "decoded" =>
        LET schema == SchemaOf(wire.schema)
            fields == schema.fields
            n == Len(fields)
        IN  /\ Len(wire.decoded) = n
            /\ Len(wire.data) = DataLength(schema)
            /\ wire.data[1] = schema.command
            /\ \A i \in 1..n :
                 IF fields[i].type.kind = "Temperature"
                 THEN /\ wire.decoded[i] = round(wire.values[i], Scale) * Scale
                      /\ 2 * Distance(wire.decoded[i], wire.values[i]) <= Scale
                      /\ wire.values[i] % Scale = 0
                            => wire.decoded[i] = wire.values[i]
                 ELSE wire.decoded[i] = wire.values[i]
            /\ wire.schema = "ModuleStatusVMBELO" =>
                 /\ wire.data[2] = BitmapRaw(wire.values[1], 8)
                 /\ wire.data[Len(wire.data)] =
                        128 * wire.values[n - 3].raw
                        + 64 * wire.values[n - 2].raw
                        + 32 * (IF wire.values[n - 1] THEN 1 ELSE 0)
                        + wire.values[n].raw

\* The page of a ModuleStatusVMBELO was raw 30 or 31 with its menu_page
\* set, and the message has been decoded.
C11_Witness ==
    /\ wire.pc = "decoded"
    /\ wire.schema = "ModuleStatusVMBELO"
    /\ wire.values[Len(wire.values)] \in {RawFallback(30), RawFallback(31)}
    /\ wire.values[Len(wire.values) - 1] = TRUE
    /\ wire.data[Len(wire.data)] \in {62, 63}

====
